---- MODULE Spec2Model ----
(***************************************************************************)
(* Model of the lung-contour server (app.py): the DICOM loader             *)
(* carregar_imagem, the windowing function apply_window, the geometric     *)
(* filter remove_fundo and the /upload handler upload_file.                *)
(*                                                                         *)
(* A binary mask is represented by its shape (rows, cols), as numpy gives  *)
(* it, and by the set of its foreground regions.  The regions are filled   *)
(* axis-aligned rectangles [x0, y0, x1, y1] (inclusive pixel coordinates,  *)
(* x = column, y = row), pairwise separated by at least one background     *)
(* pixel, so that each is one 8-connected component.                       *)
(***************************************************************************)
EXTENDS Integers, Sequences, FiniteSets, TLC

VARIABLES
    pc,                      \* "call_<f>" before f runs, "<f>_returned" after it
    image,                   \* apply_window: the calibrated samples
    img_min,                 \* apply_window: lower window bound
    img_max,                 \* apply_window: upper window bound
    windowed,                \* apply_window: the returned uint8 samples
    mascara,                 \* remove_fundo: the binary mask
    area_minima,             \* remove_fundo: lower area bound
    area_maxima,             \* remove_fundo: upper area bound
    retorno,                 \* remove_fundo: (pulmao_contornado, contornos_validos_dict)
    request,                 \* upload_file: the request received
    response,                \* upload_file: the response returned
    steps                    \* upload_file: the pipeline calls the handler made, in order

vars == <<pc, image, img_min, img_max, windowed, mascara, area_minima,
          area_maxima, retorno, request, response, steps>>

Unused == "unused"

\* ------------------------------------------------------------------ bounds
\* Largest number of foreground regions in a mask.
MaxRegions == 2
\* Number of samples of an image.
NPixels == 2

\* ------------------------------------------------------- program constants
img_min_default == -1000
img_max_default == 2000
area_minima_default == 3000
area_maxima_default == 40000
\* random() < 0.7, in hundredths
KeepThreshold == 70

\* ----------------------------------------------------------------- helpers
Abs(n) == IF n < 0 THEN -n ELSE n
Minimum(a, b) == IF a <= b THEN a ELSE b
Maximum(a, b) == IF a >= b THEN a ELSE b

\* Quotient rounded toward zero, as the float -> uint8 cast truncates.
TruncDiv(n, d) ==
    LET q == Abs(n) \div Abs(d)
    IN  IF (n < 0) = (d < 0) THEN q ELSE -q

\* ------------------------------------------------------------ apply_window
\* Outcomes of casting NaN to uint8: the cast is undefined, the build decides.
NanCastOutcomes == {0, 127, 128, 255}

\* Mutant: the upper bound of the clip is forgotten.
np_clip_lower_only(v, lo, hi) == Maximum(v, lo)

\* np.clip(v, lo, hi) = minimum(maximum(v, lo), hi); with lo > hi it is hi.
np_clip(v, lo, hi) == Minimum(Maximum(v, lo), hi)

\* astype(np.uint8) of a finite value: truncated, kept modulo 2^8.
astype_uint8(n) == n % 256

\* One sample of line 33: (v - img_min) / (img_max - img_min) * 255 as uint8.
\* With img_max = img_min the clipped sample is img_min and the quotient is
\* 0/0 = NaN (numpy warns and goes on); nan_cast is what the cast makes of it.
window_sample(v, lo, hi, nan_cast) ==
    LET clipped == np_clip(v, lo, hi)
    IN  IF hi = lo
        THEN nan_cast
        ELSE astype_uint8(TruncDiv((clipped - lo) * 255, hi - lo))

\* apply_window never raises: it returns an image for every pair of bounds.
apply_window(img, lo, hi, nan_cast) ==
    [raised |-> FALSE,
     value  |-> [k \in DOMAIN img |-> window_sample(img[k], lo, hi, nan_cast)]]

\* Calibrated samples and window bounds the calls are made with.
Samples == {-1001, -1000, -999, -988, 0, 3, 7, 10, 1999, 2000, 2001}
Windows == {<<img_min_default, img_max_default>>, <<0, 10>>, <<-1000, -999>>,
            <<7, 7>>, <<2000, -1000>>, <<10, 0>>}

InitWindow ==
    /\ pc = "call_apply_window"
    /\ image \in [1..NPixels -> Samples]
    /\ \E w \in Windows : img_min = w[1] /\ img_max = w[2]
    /\ windowed = Unused
    /\ mascara = Unused /\ area_minima = Unused /\ area_maxima = Unused
    /\ retorno = Unused
    /\ request = Unused /\ response = Unused /\ steps = Unused

ApplyWindow ==
    /\ pc = "call_apply_window"
    /\ \E nan_cast \in NanCastOutcomes :
          windowed' = apply_window(image, img_min, img_max, nan_cast)
    /\ pc' = "apply_window_returned"
    /\ UNCHANGED <<image, img_min, img_max, mascara, area_minima, area_maxima,
                   retorno, request, response, steps>>

SpecWindow == InitWindow /\ [][ApplyWindow]_vars

\* ------------------------------------------------------------------- masks
Rect(x0, y0, x1, y1) == [x0 |-> x0, y0 |-> y0, x1 |-> x1, y1 |-> y1]

\* mascara.shape is (rows, cols) = (altura, largura).
ShapeA == <<100, 100>>
ShapeB == <<301, 320>>
Shapes == {ShapeA, ShapeB}

\* Candidate regions of each shape: interior rectangles of several areas,
\* rectangles on each of the four borders, a one-pixel-wide line, one pixel.
Candidates(shape) ==
    IF shape = ShapeA
    THEN { Rect(10, 10, 89, 89),       \* 80x80 square, centred
           Rect(10, 0, 89, 79),        \* 80x80 square on row 0
           Rect(0, 0, 99, 99),         \* the whole image
           Rect(93, 10, 93, 60),       \* vertical line
           Rect(95, 95, 95, 95) }      \* single pixel
    ELSE { Rect(10, 10, 60, 70),       \* interior, polygon area 3000
           Rect(100, 20, 300, 220),    \* interior, polygon area 40000
           Rect(10, 100, 90, 180),     \* interior 81x81 square
           Rect(10, 200, 59, 258),     \* interior, polygon area 2842
           Rect(1, 1, 318, 299),       \* interior, polygon area 94466
           Rect(305, 10, 319, 250),    \* on the last column
           Rect(100, 225, 300, 300),   \* on the last row
           Rect(0, 100, 90, 180),      \* on column 0
           Rect(100, 0, 300, 15),      \* on row 0
           Rect(70, 30, 90, 30) }      \* horizontal line

\* Two rectangles with a background pixel between them (8-connectivity).
Separated(a, b) ==
    \/ a.x0 > b.x1 + 1 \/ b.x0 > a.x1 + 1
    \/ a.y0 > b.y1 + 1 \/ b.y0 > a.y1 + 1

RECURSIVE RegionSets(_, _)
RegionSets(shape, n) ==
    IF n = 0 THEN {{}}
    ELSE LET smaller == RegionSets(shape, n - 1)
         IN  smaller \cup
             { m \cup {r} : <<m, r>> \in
                 { mr \in smaller \X Candidates(shape) :
                     \A q \in mr[1] : Separated(q, mr[2]) } }

Masks ==
    UNION { { [shape |-> shape, regioes |-> m] : m \in RegionSets(shape, MaxRegions) }
            : shape \in Shapes }

\* ---------------------------------------------------------- cv2 primitives
\* The pixel a raster scan (row by row, left to right) meets first.
RasterBefore(a, b) == a.y0 < b.y0 \/ (a.y0 = b.y0 /\ a.x0 < b.x0)

\* cv2.findContours lists the components in the reverse of the order in
\* which the raster scan meets them.
RECURSIVE ReverseRaster(_)
ReverseRaster(regioes) ==
    IF regioes = {} THEN <<>>
    ELSE LET last == CHOOSE r \in regioes :
                        \A q \in regioes \ {r} : RasterBefore(q, r)
         IN  <<last>> \o ReverseRaster(regioes \ {last})

\* CHAIN_APPROX_SIMPLE outer border of a filled rectangle: the centres of
\* its corner pixels as (x, y) = (column, row), from the top-left corner
\* downwards; a line keeps its two end pixels and a pixel is one point.
TraceBorder(r) ==
    IF r.x0 = r.x1 /\ r.y0 = r.y1 THEN << <<r.x0, r.y0>> >>
    ELSE IF r.x0 = r.x1 THEN << <<r.x0, r.y0>>, <<r.x0, r.y1>> >>
    ELSE IF r.y0 = r.y1 THEN << <<r.x0, r.y0>>, <<r.x1, r.y0>> >>
    ELSE << <<r.x0, r.y0>>, <<r.x0, r.y1>>, <<r.x1, r.y1>>, <<r.x1, r.y0>> >>

\* cv2.findContours(mascara, RETR_EXTERNAL, CHAIN_APPROX_SIMPLE)
findContours(m) ==
    LET order == ReverseRaster(m.regioes)
    IN  [k \in DOMAIN order |-> TraceBorder(order[k])]

\* The point after position k of a closed contour.
NextPoint(c, k) == c[(k % Len(c)) + 1]

SegmentLength(c, k) ==
    Abs(NextPoint(c, k)[1] - c[k][1]) + Abs(NextPoint(c, k)[2] - c[k][2])

\* cv2.arcLength(contorno, True): the segments of these contours are
\* horizontal or vertical, so their Euclidean length is |dx| + |dy|.
RECURSIVE LengthUpTo(_, _)
LengthUpTo(c, k) ==
    IF k = 0 THEN 0 ELSE SegmentLength(c, k) + LengthUpTo(c, k - 1)

arcLength(c) == LengthUpTo(c, Len(c))

Cross(c, k) == c[k][1] * NextPoint(c, k)[2] - NextPoint(c, k)[1] * c[k][2]

\* Mutant: the area counts the pixels of the region instead of the polygon
\* through the pixel centres.
contourArea2_pixels(c) ==
    IF Len(c) < 4 THEN 2 * Len(c)
    ELSE 2 * (Abs(c[3][1] - c[1][1]) + 1) * (Abs(c[3][2] - c[1][2]) + 1)

\* Twice cv2.contourArea(contorno): the absolute value of the shoelace sum
\* (contourArea is half of it; the double keeps the model in the integers).
RECURSIVE ShoelaceUpTo(_, _)
ShoelaceUpTo(c, k) ==
    IF k = 0 THEN 0 ELSE Cross(c, k) + ShoelaceUpTo(c, k - 1)

contourArea2(c) == Abs(ShoelaceUpTo(c, Len(c)))

\* ------------------------------------------------------------ remove_fundo
\* Mutant: the border test compares x with the height and y with the width.
toca_borda_swapped(c, largura, altura) ==
    \E k \in DOMAIN c :
        c[k][1] = 0 \/ c[k][1] = altura - 1 \/ c[k][2] = 0 \/ c[k][2] = largura - 1

\* Lines 98-103: x, y = ponto[0]; the contour touches the border when a
\* point has x on column 0 or largura - 1, or y on row 0 or altura - 1.
toca_borda(c, largura, altura) ==
    \E k \in DOMAIN c :
        LET x == c[k][1]
            y == c[k][2]
        IN  x = 0 \/ x = largura - 1 \/ y = 0 \/ y = altura - 1

\* Mutant: the upper area bound is exclusive.
area_in_range_exclusive(area2, lo, hi) == 2 * lo <= area2 /\ area2 < 2 * hi

\* Line 108: area_minima <= area <= area_maxima, on twice the area.
area_in_range(area2, lo, hi) == 2 * lo <= area2 /\ area2 <= 2 * hi

\* Mutant: the key is the English word.
contour_key_english(i) == <<"contour_", i>>

\* Line 114: f"contorno_{i}", the prefix and the decimal index.
contour_key(i) == <<"contorno_", i>>

\* Mutant: the points are emitted as [y, x].
squeeze_tolist_row_first(c) ==
    IF Len(c) = 1 THEN <<c[1][2], c[1][1]>>
    ELSE [k \in DOMAIN c |-> <<c[k][2], c[k][1]>>]

\* Line 115: contorno.squeeze().tolist(); the (N, 1, 2) array becomes the
\* list of its N [x, y] pairs, and for N = 1 the single pair itself.
squeeze_tolist(c) == IF Len(c) = 1 THEN c[1] ELSE c

\* Lines 94-108: the position i (from 0) of contornos passes the filter.
contorno_valido(contornos, i, largura, altura, lo, hi) ==
    LET contorno == contornos[i + 1]
    IN  /\ arcLength(contorno) > 0
        /\ ~toca_borda(contorno, largura, altura)
        /\ area_in_range(contourArea2(contorno), lo, hi)

\* Mutant: the accepted contours are renumbered from 0.
remove_fundo_renumbered(m, lo, hi) ==
    LET contornos == findContours(m)
        altura == m.shape[1]
        largura == m.shape[2]
        validos == SelectSeq([k \in DOMAIN contornos |-> k - 1],
                       LAMBDA i : contorno_valido(contornos, i, largura, altura, lo, hi))
    IN  [pulmao_contornado |->
            [shape |-> <<altura, largura, 3>>,
             vermelho |-> { contornos[validos[j] + 1] : j \in DOMAIN validos }],
         contornos_validos_dict |->
            [key \in { contour_key(j - 1) : j \in DOMAIN validos } |->
                squeeze_tolist(contornos[validos[key[2] + 1] + 1])]]

\* remove_fundo(mascara, area_minima, area_maxima): the overlay with the
\* accepted contours drawn in red and the dictionary of accepted contours.
remove_fundo(m, lo, hi) ==
    LET contornos == findContours(m)
        altura == m.shape[1]
        largura == m.shape[2]
        validos == { i \in 0..(Len(contornos) - 1) :
                        contorno_valido(contornos, i, largura, altura, lo, hi) }
    IN  [pulmao_contornado |->
            [shape |-> <<altura, largura, 3>>,
             vermelho |-> { contornos[i + 1] : i \in validos }],
         contornos_validos_dict |->
            [key \in { contour_key(i) : i \in validos } |->
                squeeze_tolist(contornos[key[2] + 1])]]

\* Area bounds the filter is called with, as <<area_minima, area_maxima>>.
AreaBounds == {<<area_minima_default, area_maxima_default>>, <<0, 40000>>,
               <<3001, 39999>>, <<6241, 6241>>, <<6400, 94466>>, <<40000, 3000>>}

InitFilter ==
    /\ pc = "call_remove_fundo"
    /\ mascara \in Masks
    /\ \E b \in AreaBounds : area_minima = b[1] /\ area_maxima = b[2]
    /\ retorno = Unused
    /\ image = Unused /\ img_min = Unused /\ img_max = Unused /\ windowed = Unused
    /\ request = Unused /\ response = Unused /\ steps = Unused

RemoveFundo ==
    /\ pc = "call_remove_fundo"
    /\ retorno' = remove_fundo(mascara, area_minima, area_maxima)
    /\ pc' = "remove_fundo_returned"
    /\ UNCHANGED <<image, img_min, img_max, windowed, mascara, area_minima,
                   area_maxima, request, response, steps>>

SpecFilter == InitFilter /\ [][RemoveFundo]_vars

\* --------------------------------------------------------- carregar_imagem
\* getattr(ds, name, default)
getattr(attrs, name, default) ==
    IF name \in DOMAIN attrs THEN attrs[name] ELSE default

\* The message of the assertion of line 21, in ASCII.
ModalityMessage == "Somente imagens do tipo CT sao suportadas"
DecodeMessage == "InvalidDicomError"

\* Mutant: the modality assertion is compiled away.
carregar_imagem_no_assert(file) ==
    IF ~file.readable
    THEN [raised |-> TRUE, error |-> DecodeMessage]
    ELSE LET rescale_intercept == getattr(file.attrs, "RescaleIntercept", 0)
             rescale_slope == getattr(file.attrs, "RescaleSlope", 1)
         IN  [raised |-> FALSE,
              hu_image |-> [k \in DOMAIN file.pixel_array |->
                  file.pixel_array[k] * rescale_slope + rescale_intercept]]

\* carregar_imagem: dcmread raises on an unreadable file; the assertion on
\* the modality raises before the rescale attributes are read; otherwise the
\* image is pixel_array * RescaleSlope + RescaleIntercept.
carregar_imagem(file) ==
    IF ~file.readable
    THEN [raised |-> TRUE, error |-> DecodeMessage]
    ELSE IF file.Modality # "CT"
    THEN [raised |-> TRUE, error |-> ModalityMessage]
    ELSE LET rescale_intercept == getattr(file.attrs, "RescaleIntercept", 0)
             rescale_slope == getattr(file.attrs, "RescaleSlope", 1)
         IN  [raised |-> FALSE,
              hu_image |-> [k \in DOMAIN file.pixel_array |->
                  file.pixel_array[k] * rescale_slope + rescale_intercept]]

\* ------------------------------------------------------------ aplicar_otsu
\* aplicar_otsu: cv2.GaussianBlur and cv2.threshold turn the grey image into
\* the binary mask mascara_pulmao (the mask is an outcome of these library
\* calls, drawn by the caller), which goes through remove_fundo with the
\* default area bounds.
aplicar_otsu(imagem_cinza, mascara_pulmao) ==
    remove_fundo(mascara_pulmao, area_minima_default, area_maxima_default)

\* ------------------------------------------------------------- upload_file
\* Outcomes of random(), in hundredths.
RandomOutcomes == {0, 69, 70}

\* Mutant: the sampled contours are renumbered from 0.
sample_contours_renumbered(todos_contornos, draws) ==
    LET kept == { key \in DOMAIN todos_contornos : draws[key] < KeepThreshold }
        rank(key) == Cardinality({ other \in kept : other[2] < key[2] })
    IN  [key \in { contour_key(rank(k)) : k \in kept } |->
            todos_contornos[CHOOSE k \in kept : rank(k) = key[2]]]

\* Lines 143-145: {key: value for key, value in todos_contornos.items()
\* if random() < 0.7}
sample_contours(todos_contornos, draws) ==
    [key \in { k \in DOMAIN todos_contornos : draws[k] < KeepThreshold } |->
        todos_contornos[key]]

\* Lines 147-150: the windowed image rotated, PNG-encoded and base64-encoded.
encode_preview(dicom_data) == <<"base64_png_rotate_90_ccw", dicom_data>>

\* Mutant: an empty dictionary of contours is answered with an error.
upload_file_empty_is_error(req, mascara_pulmao, draws) ==
    IF "dicom" \notin DOMAIN req.files
    THEN [response |-> [status |-> 400, body |-> [error |-> "No file uploaded"]],
          steps |-> <<>>]
    ELSE LET loaded == carregar_imagem(req.files["dicom"])
         IN  IF loaded.raised
             THEN [response |-> [status |-> 500, body |-> [error |-> loaded.error]],
                   steps |-> <<"carregar_imagem">>]
             ELSE LET dicom_data == apply_window(loaded.hu_image, img_min_default,
                                                 img_max_default, 0).value
                      todos_contornos ==
                          aplicar_otsu(dicom_data, mascara_pulmao).contornos_validos_dict
                  IN  IF DOMAIN todos_contornos = {}
                      THEN [response |-> [status |-> 500,
                                          body |-> [error |-> "no contours"]],
                            steps |-> <<"carregar_imagem", "apply_window", "aplicar_otsu">>]
                      ELSE [response |->
                               [status |-> 200,
                                body |-> [preprocessed |-> encode_preview(dicom_data),
                                          valid_contours |->
                                              sample_contours(todos_contornos, draws),
                                          todos_contornos |-> todos_contornos]],
                            steps |-> <<"carregar_imagem", "apply_window", "aplicar_otsu",
                                        "random", "imencode">>]

\* upload_file: the response and the pipeline calls made.  A request without
\* the "dicom" part is answered 400; an exception of the pipeline is answered
\* 500 with its message; otherwise the preview and both dictionaries are
\* answered 200.  The default window is valid, so no NaN is cast.
upload_file(req, mascara_pulmao, draws) ==
    IF "dicom" \notin DOMAIN req.files
    THEN [response |-> [status |-> 400, body |-> [error |-> "No file uploaded"]],
          steps |-> <<>>]
    ELSE LET loaded == carregar_imagem(req.files["dicom"])
         IN  IF loaded.raised
             THEN [response |-> [status |-> 500, body |-> [error |-> loaded.error]],
                   steps |-> <<"carregar_imagem">>]
             ELSE LET dicom_data == apply_window(loaded.hu_image, img_min_default,
                                                 img_max_default, 0).value
                      todos_contornos ==
                          aplicar_otsu(dicom_data, mascara_pulmao).contornos_validos_dict
                  IN  [response |->
                          [status |-> 200,
                           body |-> [preprocessed |-> encode_preview(dicom_data),
                                     valid_contours |->
                                         sample_contours(todos_contornos, draws),
                                     todos_contornos |-> todos_contornos]],
                       steps |-> <<"carregar_imagem", "apply_window", "aplicar_otsu",
                                   "random", "imencode">>]

\* Raw samples, rescale attributes and files a request can carry.
RawSamples == {24, 4000}
NoAttrs == [name \in {} |-> 0]
RescaleAttrs == {NoAttrs,
                 [name \in {"RescaleSlope"} |-> 2],
                 [name \in {"RescaleIntercept"} |-> -1024],
                 [name \in {"RescaleIntercept", "RescaleSlope"} |->
                     IF name = "RescaleSlope" THEN 1 ELSE -1024]}
Files ==
    {[readable |-> FALSE]} \cup
    [readable : {TRUE}, Modality : {"CT", "MR"}, attrs : RescaleAttrs,
     shape : Shapes, pixel_array : [1..NPixels -> RawSamples]]
NoFiles == [name \in {} |-> 0]
Requests ==
    {[files |-> NoFiles]} \cup { [files |-> [name \in {"dicom"} |-> f]] : f \in Files }

\* The masks the segmentation of a request's image can give.
MasksOf(req) ==
    IF "dicom" \in DOMAIN req.files /\ req.files["dicom"].readable
    THEN { m \in Masks : m.shape = req.files["dicom"].shape }
    ELSE { [shape |-> ShapeA, regioes |-> {}] }

Init ==
    /\ pc = "listening"
    /\ request = Unused /\ response = Unused /\ steps = Unused
    /\ mascara = Unused
    /\ image = Unused /\ img_min = Unused /\ img_max = Unused /\ windowed = Unused
    /\ area_minima = Unused /\ area_maxima = Unused /\ retorno = Unused

\* POST /upload
UploadFile ==
    /\ pc = "listening"
    /\ \E req \in Requests : \E m \in MasksOf(req) :
         \E draws \in [{ contour_key(i) : i \in 0..(Cardinality(m.regioes) - 1) }
                          -> RandomOutcomes] :
            LET out == upload_file(req, m, draws)
            IN  /\ request' = req
                /\ mascara' = m
                /\ response' = out.response
                /\ steps' = out.steps
    /\ pc' = "responded"
    /\ UNCHANGED <<image, img_min, img_max, windowed, area_minima, area_maxima,
                   retorno>>

\* GET /
Home ==
    /\ pc = "listening"
    /\ request' = [route |-> "/"]
    /\ response' = [status |-> 200, body |-> "Hello, Flask!"]
    /\ steps' = <<>>
    /\ pc' = "responded"
    /\ UNCHANGED <<image, img_min, img_max, windowed, mascara, area_minima,
                   area_maxima, retorno>>

Next == UploadFile \/ Home

Spec == Init /\ [][Next]_vars

\* ------------------------------------------------------------------ claims
\* Geometry of a region of the mask, read off the mask itself.
RegionHasExtent(r) == r.x0 < r.x1 \/ r.y0 < r.y1
RegionOffBorder(r, shape) ==
    /\ r.x0 > 0 /\ r.y0 > 0
    /\ r.x1 < shape[2] - 1 /\ r.y1 < shape[1] - 1
\* Area of the polygon through the centres of the corner pixels.
RegionPolygonArea(r) == (r.x1 - r.x0) * (r.y1 - r.y0)
RegionPasses(r, shape, lo, hi) ==
    /\ RegionHasExtent(r)
    /\ RegionOffBorder(r, shape)
    /\ lo <= RegionPolygonArea(r) /\ RegionPolygonArea(r) <= hi
\* A filled square of side n pixels.
IsSquare(r, n) == r.x1 - r.x0 = n - 1 /\ r.y1 - r.y0 = n - 1

FilterReturned == pc = "remove_fundo_returned"
Accepted == retorno.contornos_validos_dict
Altura == mascara.shape[1]
Largura == mascara.shape[2]

\* C1: every contour remove_fundo returns has its area in the closed interval
\* [area_minima, area_maxima] and no vertex on row 0, row altura-1, column 0
\* or column largura-1; a region on row 0 is not returned.
C1_AcceptedInRangeOffBorder ==
    FilterReturned =>
        /\ \A key \in DOMAIN Accepted :
              LET pts == Accepted[key]
              IN  /\ 2 * area_minima <= contourArea2(pts)
                  /\ contourArea2(pts) <= 2 * area_maxima
                  /\ \A k \in DOMAIN pts :
                        /\ pts[k][1] \notin {0, Largura - 1}
                        /\ pts[k][2] \notin {0, Altura - 1}
        /\ \A r \in mascara.regioes :
              r.y0 = 0 => \A key \in DOMAIN Accepted : Accepted[key] # TraceBorder(r)

\* A region on row 0 with its area in range is left out while another
\* contour is returned.
C1_Witness ==
    /\ FilterReturned
    /\ DOMAIN Accepted # {}
    /\ \E r \in mascara.regioes :
          /\ r.y0 = 0
          /\ area_minima <= RegionPolygonArea(r)
          /\ RegionPolygonArea(r) <= area_maxima

\* C2: remove_fundo keeps the contour at position i exactly when its region
\* has positive perimeter, lies off the border and has area_minima <= area <=
\* area_maxima, both bounds inclusive.
C2_RetainedIff ==
    FilterReturned =>
        LET order == ReverseRaster(mascara.regioes)
        IN  \A i \in 0..(Len(order) - 1) :
                (contour_key(i) \in DOMAIN Accepted)
                    <=> RegionPasses(order[i + 1], mascara.shape,
                                     area_minima, area_maxima)

\* A contour of area exactly area_minima and one of area exactly area_maxima
\* are both kept.
C2_Witness ==
    /\ FilterReturned
    /\ \E a \in DOMAIN Accepted : contourArea2(Accepted[a]) = 2 * area_minima
    /\ \E b \in DOMAIN Accepted : contourArea2(Accepted[b]) = 2 * area_maxima
    /\ area_minima < area_maxima

\* The single interior square of the mask, if the mask is one.
SingleSquare(n) ==
    /\ Cardinality(mascara.regioes) = 1
    /\ \A r \in mascara.regioes : IsSquare(r, n) /\ RegionOffBorder(r, mascara.shape)
SquareSides == 2..100
DefaultAreaBounds ==
    area_minima = area_minima_default /\ area_maxima = area_maxima_default

\* C3 as stated: a single interior filled square of side n gives exactly one
\* contour, of area n squared, with the border flag false.
C3_SquareAreaIsSideSquared ==
    FilterReturned =>
        \A n \in SquareSides :
            SingleSquare(n) =>
                LET contornos == findContours(mascara)
                IN  /\ Len(contornos) = 1
                    /\ contourArea2(contornos[1]) = 2 * n * n
                    /\ ~toca_borda(contornos[1], Largura, Altura)

\* C3 amended: the single contour has area (n - 1) squared, the polygon
\* through the centres of the corner pixels; its border flag is false, and
\* under the default bounds the 80x80 square (area 6241) is accepted.
C3_SquareAreaIsSideMinusOneSquared ==
    FilterReturned =>
        \A n \in SquareSides :
            SingleSquare(n) =>
                LET contornos == findContours(mascara)
                IN  /\ Len(contornos) = 1
                    /\ contourArea2(contornos[1]) = 2 * (n - 1) * (n - 1)
                    /\ ~toca_borda(contornos[1], Largura, Altura)
                    /\ (DefaultAreaBounds /\ n = 80) =>
                          /\ DOMAIN Accepted = {contour_key(0)}
                          /\ contourArea2(Accepted[contour_key(0)]) = 2 * 6241

\* The 80x80 square centred in the 100x100 mask went through the filter with
\* the default bounds.
C3_Witness ==
    /\ FilterReturned
    /\ DefaultAreaBounds
    /\ mascara = [shape |-> <<100, 100>>, regioes |-> {Rect(10, 10, 89, 89)}]
    /\ DOMAIN Accepted = {contour_key(0)}

\* C4 as stated: every value is a list of pairs [row, col] of the vertices of
\* the region the contour was traced from.
C4_PairsAreRowCol ==
    FilterReturned =>
        LET order == ReverseRaster(mascara.regioes)
        IN  \A key \in DOMAIN Accepted :
                LET r == order[key[2] + 1]
                    pts == Accepted[key]
                IN  \A k \in DOMAIN pts :
                        /\ Len(pts[k]) = 2
                        /\ pts[k][1] \in r.y0..r.y1
                        /\ pts[k][2] \in r.x0..r.x1

\* C4 amended: every value is an ordered list of at least two integer pairs
\* [x, y] = [col, row], the convention of the border test, which compares
\* the first element with largura-1 and the second with altura-1.
C4_PairsAreColRow ==
    FilterReturned =>
        LET order == ReverseRaster(mascara.regioes)
        IN  \A key \in DOMAIN Accepted :
                LET r == order[key[2] + 1]
                    pts == Accepted[key]
                IN  /\ Len(pts) >= 2
                    /\ \A k \in DOMAIN pts :
                        /\ Len(pts[k]) = 2
                        /\ pts[k][1] \in r.x0..r.x1
                        /\ pts[k][2] \in r.y0..r.y1
                        /\ pts[k][1] \in 1..(Largura - 2)
                        /\ pts[k][2] \in 1..(Altura - 2)

\* A returned contour has a vertex whose column is not a row of its region.
C4_Witness ==
    /\ FilterReturned
    /\ LET order == ReverseRaster(mascara.regioes)
       IN  \E key \in DOMAIN Accepted :
               \E k \in DOMAIN Accepted[key] :
                   Accepted[key][k][1] \notin
                       order[key[2] + 1].y0..order[key[2] + 1].y1

\* C6: apply_window called with img_max <= img_min fails with an error
\* instead of returning an image.
C6_InvalidWindowFails ==
    (pc = "apply_window_returned" /\ img_max <= img_min) => windowed.raised

\* C8: for img_min < img_max every returned sample is in 0..255, samples at
\* or below img_min give 0, samples at or above img_max give 255, samples in
\* between give the truncation of (v - img_min) * 255 / (img_max - img_min),
\* and the mapping is non-decreasing.
C8_WindowBoundedMonotone ==
    (pc = "apply_window_returned" /\ img_min < img_max) =>
        /\ ~windowed.raised
        /\ DOMAIN windowed.value = DOMAIN image
        /\ \A k \in DOMAIN image :
              LET v == image[k]
                  w == windowed.value[k]
              IN  /\ w \in 0..255
                  /\ v <= img_min => w = 0
                  /\ v >= img_max => w = 255
                  /\ (img_min < v /\ v < img_max) =>
                        w = ((v - img_min) * 255) \div (img_max - img_min)
        /\ \A j, k \in DOMAIN image :
              image[j] <= image[k] => windowed.value[j] <= windowed.value[k]

\* A sample below the window and a sample strictly inside it were mapped.
C8_Witness ==
    /\ pc = "apply_window_returned"
    /\ img_min < img_max
    /\ image[1] < img_min
    /\ img_min < image[2] /\ image[2] < img_max
    /\ windowed.value[2] \in 1..254

Responded == pc = "responded" /\ "files" \in DOMAIN request
HasFile == "dicom" \in DOMAIN request.files
Succeeded == Responded /\ response.status = 200
Todos == response.body.todos_contornos
Validos == response.body.valid_contours

\* C5: when no contour of the mask is accepted (no region at all, or every
\* region rejected), the handler of a readable CT file answers 200 with both
\* dictionaries empty.
C5_EmptyResultIsSuccess ==
    (/\ Responded /\ HasFile
     /\ request.files["dicom"].readable
     /\ request.files["dicom"].Modality = "CT"
     /\ \A r \in mascara.regioes :
           ~RegionPasses(r, mascara.shape, area_minima_default, area_maxima_default))
    => /\ response.status = 200
       /\ DOMAIN response.body = {"preprocessed", "valid_contours", "todos_contornos"}
       /\ DOMAIN Todos = {}
       /\ DOMAIN Validos = {}

\* An all-background mask was answered.
C5_Witness ==
    /\ Responded /\ HasFile
    /\ request.files["dicom"].readable
    /\ request.files["dicom"].Modality = "CT"
    /\ mascara.regioes = {}
    /\ response.status = 200

\* C7: a readable file whose modality is not CT makes carregar_imagem fail
\* before calibration, windowing and segmentation, and the handler answers
\* the error with status 500 and no preview or contours.
C7_NonCTIsError ==
    (/\ Responded /\ HasFile
     /\ request.files["dicom"].readable
     /\ request.files["dicom"].Modality # "CT")
    => /\ response.status = 500
       /\ response.body = [error |-> ModalityMessage]
       /\ steps = <<"carregar_imagem">>
       /\ "hu_image" \notin DOMAIN carregar_imagem(request.files["dicom"])

\* A file of modality MR was answered.
C7_Witness ==
    /\ Responded /\ HasFile
    /\ request.files["dicom"].readable
    /\ request.files["dicom"].Modality = "MR"
    /\ response.status = 500

\* C9: in a successful response valid_contours is a sub-dictionary of
\* todos_contornos (same keys, same point lists), and todos_contornos is
\* what the filter returned.
C9_SampledIsSubset ==
    Succeeded =>
        /\ DOMAIN Validos \subseteq DOMAIN Todos
        /\ \A key \in DOMAIN Validos : Validos[key] = Todos[key]
        /\ Todos = remove_fundo(mascara, area_minima_default,
                                area_maxima_default).contornos_validos_dict

\* The draws kept one accepted contour and dropped another.
C9_Witness ==
    /\ Succeeded
    /\ DOMAIN Validos # {}
    /\ DOMAIN Validos # DOMAIN Todos

\* C10 as stated: the identifiers have the form contour_<index>.
C10_KeysAreContourIndex ==
    Succeeded =>
        \A key \in DOMAIN Todos \cup DOMAIN Validos : key[1] = "contour_"

\* C10 amended: the identifiers have the form contorno_<index>, the index
\* being the position of the contour in the unfiltered output of
\* findContours; one identifier per accepted contour; the filter and the
\* sampling keep the identifiers.
C10_KeysAreContornoIndex ==
    Succeeded =>
        LET contornos == findContours(mascara)
            order == ReverseRaster(mascara.regioes)
        IN  /\ \A key \in DOMAIN Todos :
                  /\ key[1] = "contorno_"
                  /\ key[2] \in 0..(Len(contornos) - 1)
                  /\ Todos[key] = contornos[key[2] + 1]
            /\ Cardinality(DOMAIN Todos) =
                  Cardinality({ r \in mascara.regioes :
                      RegionPasses(r, mascara.shape, area_minima_default,
                                   area_maxima_default) })
            /\ \A key \in DOMAIN Validos :
                  key \in DOMAIN Todos /\ Validos[key] = contornos[key[2] + 1]

\* Contour 0 was rejected and contour 1 survives the filter and the sampling
\* under its own index.
C10_Witness ==
    /\ Succeeded
    /\ contour_key(0) \notin DOMAIN Todos
    /\ contour_key(1) \in DOMAIN Validos

====
